---- MODULE Spec2Model ----
(***************************************************************************)
(* Model of the sequence comparison protocol of package seq (seq.go):      *)
(* CompareFunc / CompareKVFunc and the entry points built on them          *)
(* (Compare, CompareKV, Equal, EqualKV).                                   *)
(*                                                                         *)
(* One call of CompareFunc is two routines: the comparing routine (the     *)
(* caller's goroutine, program counter pc) and the goroutine that drives   *)
(* b (program counter gpc).  They share the handoff channel bvals and the  *)
(* cancellation channel exit.  Every variable is a function of the call,   *)
(* so that several calls can be in progress.                               *)
(*                                                                         *)
(* Further parts: ToChan / ToChanCtx (the goroutine driving a sequence     *)
(* into a channel, and its consumer), the counters of IntK under           *)
(* concurrent invocation, and the functions that consume a whole sequence  *)
(* (Find*, Compact*, IsSortedKV, Chunk), each with its own specification.  *)
(***************************************************************************)
EXTENDS Integers, Sequences, FiniteSets, TLC

\* Bounds of the model.
MaxLen == 2      \* longest input sequence
MaxVal == 2      \* single-value sequences hold elements 0..MaxVal

\* The calls of one caller: c1 is made first, c2 after c1 has returned.
Calls == {"c1", "c2"}

Vals == 0..MaxVal
\* Key-value sequences pair a string key with an int value.
Keys == {"a", "b"}
KVVals == {0, 1}

\* type KV[K, V any] struct { K K; V V }
KV == [K : Keys, V : KVVals]

SeqsUpTo(S, n) == UNION {[1..m -> S] : m \in 0..n}

\* With(v...) and WithKV(kv...): the finite restartable sequences.
With == SeqsUpTo(Vals, MaxLen)
WithKV == SeqsUpTo(KV, MaxLen)

IsKVOp(o) == o \in {"CompareKV", "CompareKVFunc", "EqualKV"}

\* The zero value of the element type (what a receive from a closed channel yields).
ZeroOf(o) == IF IsKVOp(o) THEN [K |-> "", V |-> 0] ELSE 0

\* Order of the string keys ("" < "a" < "b").
KeyRank(k) == IF k = "" THEN 0 ELSE IF k = "a" THEN 1 ELSE 2

\* cmp.Compare on an ordered type.
cmpCompare(x, y) == IF x < y THEN -1 ELSE IF x > y THEN 1 ELSE 0

\* The comparator CompareKV passes to CompareKVFunc: key first, then value.
\* (variant: value first, then key)
ValueFirstCmp(x, y) ==
    IF cmpCompare(x.V, y.V) = 0
    THEN cmpCompare(KeyRank(x.K), KeyRank(y.K))
    ELSE cmpCompare(x.V, y.V)
CompareKVCmp(x, y) ==
    IF cmpCompare(KeyRank(x.K), KeyRank(y.K)) = 0
    THEN cmpCompare(x.V, y.V)
    ELSE cmpCompare(KeyRank(x.K), KeyRank(y.K))

\* The comparator Equal passes to CompareFunc.
EqualCmp(x, y) == IF x = y THEN 0 ELSE -1

\* The comparator EqualKV passes to CompareKVFunc.
EqualKeysOnly(x, y) == IF x.K = y.K THEN 0 ELSE -1    \* variant: the values ignored
EqualKVCmp(x, y) ==
    IF x.K = y.K /\ x.V = y.V THEN 0
    ELSE IF x.K # y.K THEN -1
    ELSE 1

\* Comparators a caller passes to CompareFunc / CompareKVFunc.
\* "diff"  : func(a, b int) int { return a - b }
\* "sum"   : an inconsistent comparator, zero on some unequal pairs
\* "diffV" : func(a, b KV) int { return a.V - b.V }
\* "cmpK"  : func(a, b KV) int { return strings.Compare(a.K, b.K) }
CallerCmp(name, x, y) ==
    CASE name = "diff" -> x - y
      [] name = "sum" -> x + y - MaxVal
      [] name = "diffV" -> x.V - y.V
      [] name = "cmpK" -> cmpCompare(KeyRank(x.K), KeyRank(y.K))

BaseCmp(name, x, y) ==
    CASE name = "cmp.Compare" -> cmpCompare(x, y)
      [] name = "CompareKV" -> CompareKVCmp(x, y)
      [] name = "Equal" -> EqualCmp(x, y)
      [] name = "EqualKV" -> EqualKVCmp(x, y)
      [] OTHER -> CallerCmp(name, x, y)

\* A comparator value: a named function, possibly flipped:
\* flip(C)(x, y) = -C(y, x).
Apply(cf, x, y) ==
    IF cf.flip THEN 0 - BaseCmp(cf.name, y, x) ELSE BaseCmp(cf.name, x, y)

Cmp(name) == [name |-> name, flip |-> FALSE]
Flip(cf) == [name |-> cf.name, flip |-> ~cf.flip]

FuncCmps == {"diff", "sum"}
KVFuncCmps == {"diffV", "cmpK"}

VARIABLES
    op,          \* the entry point of the call ("idle": not made yet)
    a, b,        \* the argument sequences
    bLoop,       \* b is endless: it repeats its elements forever
    compare,     \* the comparator
    pc,          \* comparing routine: idle, start, range, recv, compare, final, done
    ai,          \* number of elements the comparing routine has pulled from a
    av, bv,      \* the loop variables av and bv
    nrecv,       \* number of values the comparing routine has received from bvals
    result,      \* the return value (meaningful when pc = "done")
    gpc,         \* goroutine driving b: idle, range, select, done
    bi,          \* number of elements the goroutine has pulled from b
    gv,          \* the goroutine's loop variable v
    bvalsBuf,    \* values buffered in channel bvals
    bvalsClosed, \* close(bvals) has run
    exitClosed,  \* close(exit) has run
    log          \* the comparator's invocations, in order: the positions in a
                 \* and b (i, j), the arguments (x, y) and the result (r)

\* ToChan / ToChanCtx: the goroutine that drives seq into channel ch (the
\* driver) and the consumer of ch.
VARIABLES
    tcOp,        \* the function called: "none", "ToChan", "ToChanCtx"
    tcSeq,       \* its argument seq
    dpc,         \* driver: idle, range, check, select, send, parked, canceled, done
    di,          \* number of elements the driver has pulled from seq
    t,           \* the driver's loop variable t
    chClosed,    \* close(ch) has run
    ctxDone,     \* cancel() has run: ctx.Done() is closed
    cpc,         \* consumer: idle, run, waiting (blocked in <-ch), stopped, closed
    recvd,       \* the values the consumer has received, in order
    cancelAt     \* number of values received when the consumer canceled (-1: not yet)

sinkVars == <<tcOp, tcSeq, dpc, di, t, chClosed, ctxDone, cpc, recvd, cancelAt>>

\* IntK: the counters behind the functions IntK returns, and the goroutines
\* that invoke these functions.
VARIABLES
    ctr,         \* the atomic.Int64 i of each function IntK has returned
    kpc,         \* invoking goroutine: "idle", or "ret" (i.Add(1) done, not yet returned)
    kf,          \* the function the goroutine is invoking
    kv,          \* the value its i.Add(1) produced
    kn,          \* number of invocations the goroutine has started
    kret         \* per function, the values its invocations have returned, in order

intkVars == <<ctr, kpc, kf, kv, kn, kret>>

\* One application of a function of the package to arguments, run to its end.
VARIABLES
    pfn,         \* the function applied ("none": not yet)
    parg,        \* its arguments
    pret         \* what it returned or yielded

pureVars == <<pfn, parg, pret>>

\* One sequence object returned by a lazy function of the package (Map,
\* Filter, Append, DropKV, EveryN, ...) and the iterations of it by its
\* consumer.  The fields of the record:
\*   op      the function that returned the sequence ("none": not called)
\*   src     the source sequence passed to it
\*   arg     its other argument (fn, items, n, ...)
\*   cap     the variable its closure captures and updates (DropKV: i, EveryN: times)
\*   pc      built (returned, not iterated), loop, body, yield, items, end,
\*           blocked, panic
\*   iter    the number of the iteration in progress (0: none yet)
\*   pulled  elements of src pulled in this iteration
\*   cur     the element the body is working on / the value passed to yield
\*   fnOn    the elements fn has been applied to in this iteration
\*   out     the values passed to the consumer in this iteration
\*   stop    the consumer has returned false (break) in this iteration
\*   late    calls of yield made after the consumer returned false
\*   first   what the first iteration passed to the consumer
VARIABLE it

cmpVars == <<op, a, b, bLoop, compare, pc, ai, av, bv, nrecv, result,
             gpc, bi, gv, bvalsBuf, bvalsClosed, exitClosed, log>>

\* The variables the comparison protocol does not touch.
otherVars == <<sinkVars, intkVars, pureVars, it>>
\* The variables ToChan and ToChanCtx do not touch.
notSinkVars == <<cmpVars, intkVars, pureVars, it>>
\* The variables the functions of IntK do not touch.
notIntKVars == <<cmpVars, sinkVars, pureVars, it>>
\* The variables the application of a function does not touch.
notPureVars == <<cmpVars, sinkVars, intkVars, it>>
\* The variables the iteration of a lazy sequence does not touch.
notIterVars == <<cmpVars, sinkVars, intkVars, pureVars>>

vars == <<cmpVars, otherVars>>

inputVars == <<op, a, b, bLoop, compare>>
mainVars == <<pc, ai, av, bv, nrecv, result, exitClosed, log>>
goVars == <<gpc, bi, gv>>
chanVars == <<bvalsBuf, bvalsClosed>>

\* bvals := make(chan T): the capacity of the call's handoff channel (unbuffered).
Buffered(c) == 1    \* variant: make(chan T, 1)
BvalsCap(c) == 0

\* for v := range b: is there an element after the first n?
HasNext(c, n) == bLoop[c] \/ n < Len(b[c])

\* The n-th element b yields (n >= 1).
BAt(c, n) == b[c][((n - 1) % Len(b[c])) + 1]

\* defer close(exit) in the comparing routine.
NeverCloseExit(c) == exitClosed    \* variant: the defer left out
SharedCloseExit(c) == [k \in Calls |-> TRUE]    \* variant: one exit channel for all calls
DeferCloseExit(c) == [exitClosed EXCEPT ![c] = TRUE]

\* defer close(bvals) in the goroutine.
NeverCloseBvals(c) == bvalsClosed    \* variant: the defer left out
DeferCloseBvals(c) == [bvalsClosed EXCEPT ![c] = TRUE]

\* if c := compare(av, bv); c != 0 { return c }
StopsOnNegative(r) == r < 0    \* variant: c < 0
CompareStops(r) == r # 0

Sign(r) == IF r < 0 THEN -1 ELSE IF r > 0 THEN 1 ELSE 0    \* variant: the result normalised
MismatchResult(r) == r

\* if _, ok := <-bvals; ok { return -1 }; return 0
FinalSwapped(ok) == IF ok THEN 0 ELSE -1    \* variant: the two returns exchanged
FinalResult(ok) == IF ok THEN -1 ELSE 0

\* if !ok { return 1 }: b is shorter than a.
BShorterAsEqual == FinalResult(FALSE)    \* variant: a closed bvals taken for equality
BShorter == 1

\* A receive from bvals can complete: a buffered value, a sender blocked in
\* its select, or the channel closed.
RecvOk(c) == Len(bvalsBuf[c]) > 0 \/ gpc[c] = "select"
RecvReady(c) == RecvOk(c) \/ bvalsClosed[c]

RecvVal(c) ==
    IF Len(bvalsBuf[c]) > 0 THEN Head(bvalsBuf[c])
    ELSE IF gpc[c] = "select" THEN gv[c]
    ELSE ZeroOf(op[c])

\* What the receive does to the channel and to the sender it meets.
RecvEffect(c) ==
    /\ bvalsBuf' = IF Len(bvalsBuf[c]) > 0
                   THEN [bvalsBuf EXCEPT ![c] = Tail(@)]
                   ELSE bvalsBuf
    /\ gpc' = IF Len(bvalsBuf[c]) = 0 /\ gpc[c] = "select"
              THEN [gpc EXCEPT ![c] = "range"]
              ELSE gpc
    /\ UNCHANGED <<bi, gv, bvalsClosed>>

\* return r, with the deferred close(exit).
Return(c, r) ==
    /\ result' = [result EXCEPT ![c] = r]
    /\ pc' = [pc EXCEPT ![c] = "done"]
    /\ exitClosed' = DeferCloseExit(c)

\* bvals := make(chan T); exit := make(chan struct{}); defer close(exit); go func() {...}()
CallStart(c) ==
    /\ pc[c] = "start"
    /\ pc' = [pc EXCEPT ![c] = "range"]
    /\ gpc' = [gpc EXCEPT ![c] = "range"]
    /\ UNCHANGED <<inputVars, ai, av, bv, nrecv, result, exitClosed, log,
                   bi, gv, chanVars>>
    /\ UNCHANGED otherVars

\* for av := range a
MainRange(c) ==
    /\ pc[c] = "range"
    /\ IF ai[c] < Len(a[c])
       THEN /\ ai' = [ai EXCEPT ![c] = @ + 1]
            /\ av' = [av EXCEPT ![c] = a[c][ai[c] + 1]]
            /\ pc' = [pc EXCEPT ![c] = "recv"]
       ELSE /\ pc' = [pc EXCEPT ![c] = "final"]
            /\ UNCHANGED <<ai, av>>
    /\ UNCHANGED <<inputVars, bv, nrecv, result, exitClosed, log, goVars, chanVars>>
    /\ UNCHANGED otherVars

\* bv, ok := <-bvals; if !ok { return 1 }
MainRecv(c) ==
    /\ pc[c] = "recv"
    /\ RecvReady(c)
    /\ RecvEffect(c)
    /\ IF RecvOk(c)
       THEN /\ bv' = [bv EXCEPT ![c] = RecvVal(c)]
            /\ nrecv' = [nrecv EXCEPT ![c] = @ + 1]
            /\ pc' = [pc EXCEPT ![c] = "compare"]
            /\ UNCHANGED <<result, exitClosed>>
       ELSE /\ Return(c, BShorter)
            /\ UNCHANGED <<bv, nrecv>>
    /\ UNCHANGED <<inputVars, ai, av, log>>
    /\ UNCHANGED otherVars

\* if c := compare(av, bv); c != 0 { return c }
MainCompare(c) ==
    /\ pc[c] = "compare"
    /\ LET r == Apply(compare[c], av[c], bv[c]) IN
         /\ log' = [log EXCEPT ![c] = Append(@, [i |-> ai[c], j |-> nrecv[c],
                                                    x |-> av[c], y |-> bv[c], r |-> r])]
         /\ IF CompareStops(r)
            THEN Return(c, MismatchResult(r))
            ELSE /\ pc' = [pc EXCEPT ![c] = "range"]
                 /\ UNCHANGED <<result, exitClosed>>
    /\ UNCHANGED <<inputVars, ai, av, bv, nrecv, goVars, chanVars>>
    /\ UNCHANGED otherVars

\* if _, ok := <-bvals; ok { return -1 }; return 0
MainFinal(c) ==
    /\ pc[c] = "final"
    /\ RecvReady(c)
    /\ RecvEffect(c)
    /\ nrecv' = IF RecvOk(c) THEN [nrecv EXCEPT ![c] = @ + 1] ELSE nrecv
    /\ Return(c, FinalResult(RecvOk(c)))
    /\ UNCHANGED <<inputVars, ai, av, bv, log>>
    /\ UNCHANGED otherVars

\* goroutine: for v := range b (and, when b is exhausted, the deferred close(bvals))
GoRange(c) ==
    /\ gpc[c] = "range"
    /\ IF HasNext(c, bi[c])
       THEN /\ bi' = [bi EXCEPT ![c] = @ + 1]
            /\ gv' = [gv EXCEPT ![c] = BAt(c, bi[c] + 1)]
            /\ gpc' = [gpc EXCEPT ![c] = "select"]
            /\ UNCHANGED bvalsClosed
       ELSE /\ gpc' = [gpc EXCEPT ![c] = "done"]
            /\ bvalsClosed' = DeferCloseBvals(c)
            /\ UNCHANGED <<bi, gv>>
    /\ UNCHANGED <<inputVars, mainVars, bvalsBuf>>
    /\ UNCHANGED otherVars

\* The cases of the goroutine's select that can proceed without a receiver:
\* case <-exit (exit is closed), case bvals <- v (room in the buffer).
\* The send to a waiting receiver is part of the receive (RecvEffect).
SelectReady(c) ==
    {k \in {"exit", "send"} :
        \/ k = "exit" /\ exitClosed[c]
        \/ k = "send" /\ Len(bvalsBuf[c]) < BvalsCap(c)}

\* select { case bvals <- v: ; case <-exit: return }
GoSelect(c) ==
    /\ gpc[c] = "select"
    /\ \E k \in SelectReady(c) :
         IF k = "exit"
         THEN /\ gpc' = [gpc EXCEPT ![c] = "done"]
              /\ bvalsClosed' = DeferCloseBvals(c)
              /\ UNCHANGED bvalsBuf
         ELSE /\ gpc' = [gpc EXCEPT ![c] = "range"]
              /\ bvalsBuf' = [bvalsBuf EXCEPT ![c] = Append(@, gv[c])]
              /\ UNCHANGED bvalsClosed
    /\ UNCHANGED <<inputVars, mainVars, bi, gv>>
    /\ UNCHANGED otherVars

\* The caller's next call, made once the first has returned (the examples
\* call Compare, Equal, ... one after the other on the same sequences):
\*   "flip"  : CompareFunc(b, a, flip(compare)) after CompareFunc(a, b, compare)
\*   "equal" : Equal(a, b) after Compare(a, b); EqualKV after CompareKV
SecondCalls(c) ==
    {k \in {"flip", "equal"} :
        \/ k = "flip" /\ op[c] = "CompareFunc" /\ ~bLoop[c]
        \/ k = "equal" /\ op[c] \in {"Compare", "CompareKV"}}

CallAgain ==
    /\ pc["c1"] = "done"
    /\ op["c2"] = "idle"
    /\ \E k \in SecondCalls("c1") :
         IF k = "flip"
         THEN /\ op' = [op EXCEPT !["c2"] = "CompareFunc"]
              /\ a' = [a EXCEPT !["c2"] = b["c1"]]
              /\ b' = [b EXCEPT !["c2"] = a["c1"]]
              /\ compare' = [compare EXCEPT !["c2"] = Flip(compare["c1"])]
         ELSE /\ op' = [op EXCEPT !["c2"] =
                          IF IsKVOp(op["c1"]) THEN "EqualKV" ELSE "Equal"]
              /\ a' = [a EXCEPT !["c2"] = a["c1"]]
              /\ b' = [b EXCEPT !["c2"] = b["c1"]]
              /\ compare' = [compare EXCEPT !["c2"] =
                          IF IsKVOp(op["c1"]) THEN Cmp("EqualKV") ELSE Cmp("Equal")]
    /\ bLoop' = [bLoop EXCEPT !["c2"] = IF op'["c2"] \in {"Equal", "EqualKV"}
                                        THEN bLoop["c1"] ELSE FALSE]
    /\ pc' = [pc EXCEPT !["c2"] = "start"]
    /\ av' = [av EXCEPT !["c2"] = ZeroOf(op'["c2"])]
    /\ bv' = [bv EXCEPT !["c2"] = ZeroOf(op'["c2"])]
    /\ gv' = [gv EXCEPT !["c2"] = ZeroOf(op'["c2"])]
    /\ UNCHANGED <<ai, nrecv, result, exitClosed, log, gpc, bi, chanVars>>
    /\ UNCHANGED otherVars

\* No ToChan / ToChanCtx call has been made.
SinkIdle ==
    /\ tcOp = "none"
    /\ tcSeq = <<>>
    /\ dpc = "idle"
    /\ di = 0
    /\ t = 0
    /\ chClosed = FALSE
    /\ ctxDone = FALSE
    /\ cpc = "idle"
    /\ recvd = <<>>
    /\ cancelAt = -1

\* var i atomic.Int64; i.Store(-1)
StoreZero(f) == 0    \* variant: i left at its zero value
IntKStore(f) == -1

\* The functions obtained from two calls of IntK, and the goroutines that
\* invoke them.
IntKs == {"k1", "k2"}
Invokers == {"g1", "g2"}

\* IntK has returned its functions; none has been invoked.
IntKIdle ==
    /\ ctr = [f \in IntKs |-> IntKStore(f)]
    /\ kpc = [g \in Invokers |-> "idle"]
    /\ kf = [g \in Invokers |-> "k1"]
    /\ kv = [g \in Invokers |-> 0]
    /\ kn = [g \in Invokers |-> 0]
    /\ kret = [f \in IntKs |-> <<>>]

\* No function has been applied.
PureIdle ==
    /\ pfn = [name |-> "none", x |-> 0]
    /\ parg = [kind |-> "T", s |-> <<>>]
    /\ pret = <<>>

\* A sequence object: op(src, arg) has returned it, nobody has iterated it.
Built(o, src, arg, cap) ==
    [op |-> o, src |-> src, arg |-> arg, cap |-> cap, pc |-> "built", iter |-> 0,
     pulled |-> 0, cur |-> 0, fnOn |-> <<>>, out |-> <<>>, stop |-> FALSE,
     late |-> 0, first |-> <<>>]

\* No lazy function has been called.
IterIdle == it = Built("none", <<>>, 0, 0)

OtherIdle == SinkIdle /\ IntKIdle /\ PureIdle /\ IterIdle

\* The calls a caller can make first.
\* Compare(a, b) = CompareFunc(a, b, cmp.Compare); CompareKV likewise.
FirstCalls ==
    {[op |-> "Compare", a |-> x, b |-> y, compare |-> Cmp("cmp.Compare")] :
        x \in With, y \in With}
    \cup {[op |-> "CompareFunc", a |-> x, b |-> y, compare |-> Cmp(n)] :
        x \in With, y \in With, n \in FuncCmps}
    \cup {[op |-> "CompareKV", a |-> x, b |-> y, compare |-> Cmp("CompareKV")] :
        x \in WithKV, y \in WithKV}
    \cup {[op |-> "CompareKVFunc", a |-> x, b |-> y, compare |-> Cmp(n)] :
        x \in WithKV, y \in WithKV, n \in KVFuncCmps}

\* b may also be an endless sequence (single-value calls).
Loops(call) == IF ~IsKVOp(call.op) /\ Len(call.b) > 0 THEN BOOLEAN ELSE {FALSE}

Init ==
    \E call \in FirstCalls : \E lp \in Loops(call) :
      /\ op = [c \in Calls |-> IF c = "c1" THEN call.op ELSE "idle"]
      /\ a = [c \in Calls |-> IF c = "c1" THEN call.a ELSE <<>>]
      /\ b = [c \in Calls |-> IF c = "c1" THEN call.b ELSE <<>>]
      /\ bLoop = [c \in Calls |-> c = "c1" /\ lp]
      /\ compare = [c \in Calls |-> IF c = "c1" THEN call.compare ELSE Cmp("cmp.Compare")]
      /\ pc = [c \in Calls |-> IF c = "c1" THEN "start" ELSE "idle"]
      /\ ai = [c \in Calls |-> 0]
      /\ av = [c \in Calls |-> ZeroOf(call.op)]
      /\ bv = [c \in Calls |-> ZeroOf(call.op)]
      /\ nrecv = [c \in Calls |-> 0]
      /\ result = [c \in Calls |-> 0]
      /\ gpc = [c \in Calls |-> "idle"]
      /\ bi = [c \in Calls |-> 0]
      /\ gv = [c \in Calls |-> ZeroOf(call.op)]
      /\ bvalsBuf = [c \in Calls |-> <<>>]
      /\ bvalsClosed = [c \in Calls |-> FALSE]
      /\ exitClosed = [c \in Calls |-> FALSE]
      /\ log = [c \in Calls |-> <<>>]
      /\ OtherIdle

Main(c) == CallStart(c) \/ MainRange(c) \/ MainRecv(c) \/ MainCompare(c) \/ MainFinal(c)
Go(c) == GoRange(c) \/ GoSelect(c)

Next ==
    \/ \E c \in Calls : Main(c)
    \/ \E c \in Calls : Go(c)
    \/ CallAgain

Spec == Init /\ [][Next]_vars

\* The steps of the calls in progress, without the caller making a further call.
CallSteps ==
    \/ \E c \in Calls : Main(c)
    \/ \E c \in Calls : Go(c)

\* One call under the Go scheduler, which runs every runnable goroutine
\* eventually.
FairSpec ==
    /\ Init
    /\ [][CallSteps]_vars
    /\ \A c \in Calls : WF_vars(Main(c)) /\ WF_vars(Go(c))

(***************************************************************************)
(* Two calls in progress at the same time.                                 *)
(***************************************************************************)
\* Elements of the sequences the concurrent calls compare.
ConcVals == {0, 1}
ConcSeqs == SeqsUpTo(ConcVals, MaxLen)

\* Two goroutines of the caller call CompareFunc at the same time, one on
\* (x, y) and one on (y, x).  Each call makes its own bvals and exit.
ConcInit ==
    \E x \in ConcSeqs, y \in ConcSeqs, n \in FuncCmps :
      /\ op = [c \in Calls |-> "CompareFunc"]
      /\ a = [c \in Calls |-> IF c = "c1" THEN x ELSE y]
      /\ b = [c \in Calls |-> IF c = "c1" THEN y ELSE x]
      /\ bLoop = [c \in Calls |-> FALSE]
      /\ compare = [c \in Calls |-> Cmp(n)]
      /\ pc = [c \in Calls |-> "start"]
      /\ ai = [c \in Calls |-> 0]
      /\ av = [c \in Calls |-> 0]
      /\ bv = [c \in Calls |-> 0]
      /\ nrecv = [c \in Calls |-> 0]
      /\ result = [c \in Calls |-> 0]
      /\ gpc = [c \in Calls |-> "idle"]
      /\ bi = [c \in Calls |-> 0]
      /\ gv = [c \in Calls |-> 0]
      /\ bvalsBuf = [c \in Calls |-> <<>>]
      /\ bvalsClosed = [c \in Calls |-> FALSE]
      /\ exitClosed = [c \in Calls |-> FALSE]
      /\ log = [c \in Calls |-> <<>>]
      /\ OtherIdle

\* The Go scheduler runs every runnable goroutine of both calls eventually.
ConcSpec ==
    /\ ConcInit
    /\ [][CallSteps]_vars
    /\ \A c \in Calls : WF_vars(Main(c)) /\ WF_vars(Go(c))

(***************************************************************************)
(* ToChan and ToChanCtx.                                                   *)
(*                                                                         *)
(* ch is unbuffered: a send completes only together with a receive.  A     *)
(* routine that finds nobody on the other side blocks (driver: parked,     *)
(* consumer: waiting) and is completed by the step of the routine that     *)
(* arrives.  A driver blocked in its select is committed to the case that  *)
(* becomes ready first; a select that finds several cases ready takes any  *)
(* of them.                                                                *)
(***************************************************************************)
\* No CompareFunc call is in progress.
CmpIdle ==
    /\ op = [c \in Calls |-> "idle"]
    /\ a = [c \in Calls |-> <<>>]
    /\ b = [c \in Calls |-> <<>>]
    /\ bLoop = [c \in Calls |-> FALSE]
    /\ compare = [c \in Calls |-> Cmp("cmp.Compare")]
    /\ pc = [c \in Calls |-> "idle"]
    /\ ai = [c \in Calls |-> 0]
    /\ av = [c \in Calls |-> 0]
    /\ bv = [c \in Calls |-> 0]
    /\ nrecv = [c \in Calls |-> 0]
    /\ result = [c \in Calls |-> 0]
    /\ gpc = [c \in Calls |-> "idle"]
    /\ bi = [c \in Calls |-> 0]
    /\ gv = [c \in Calls |-> 0]
    /\ bvalsBuf = [c \in Calls |-> <<>>]
    /\ bvalsClosed = [c \in Calls |-> FALSE]
    /\ exitClosed = [c \in Calls |-> FALSE]
    /\ log = [c \in Calls |-> <<>>]

\* ch := make(chan T); go func() {...}(); return ch
\* The state when ToChan / ToChanCtx has returned ch to the consumer.
ChanInit ==
    /\ CmpIdle
    /\ IntKIdle
    /\ PureIdle
    /\ IterIdle
    /\ tcOp \in {"ToChan", "ToChanCtx"}
    /\ tcSeq \in With
    /\ dpc = "range"
    /\ di = 0
    /\ t = 0
    /\ chClosed = FALSE
    /\ ctxDone = FALSE
    /\ cpc = "run"
    /\ recvd = <<>>
    /\ cancelAt = -1

\* defer close(ch)
LeaveOpen(closed) == closed    \* variant: the defer left out
CloseOnReturn(closed) == TRUE

\* The driver returns: the deferred close(ch) runs, and a consumer blocked in
\* its receive is released by it.
DriverReturn ==
    /\ dpc' = "done"
    /\ chClosed' = CloseOnReturn(chClosed)
    /\ cpc' = IF cpc = "waiting" /\ chClosed' THEN "closed" ELSE cpc

\* The send ch <- t completes with the consumer blocked in its receive.
Handoff ==
    /\ recvd' = Append(recvd, t)
    /\ cpc' = "run"
    /\ dpc' = "range"
    /\ UNCHANGED chClosed

\* for t := range seq
DriverRange ==
    /\ dpc = "range"
    /\ IF di < Len(tcSeq)
       THEN /\ di' = di + 1
            /\ t' = tcSeq[di + 1]
            /\ dpc' = IF tcOp = "ToChanCtx" THEN "check" ELSE "send"
            /\ UNCHANGED <<chClosed, cpc>>
       ELSE /\ DriverReturn
            /\ UNCHANGED <<di, t>>
    /\ UNCHANGED <<tcOp, tcSeq, ctxDone, recvd, cancelAt, notSinkVars>>

\* variant: a send that is given up when no receiver is waiting
SendOrReturn ==
    /\ dpc = "send"
    /\ IF cpc = "waiting"
       THEN Handoff
       ELSE /\ DriverReturn
            /\ UNCHANGED recvd
    /\ UNCHANGED <<tcOp, tcSeq, di, t, ctxDone, cancelAt, notSinkVars>>

\* ToChan: ch <- t
DriverSend ==
    /\ dpc = "send"
    /\ IF cpc = "waiting"
       THEN Handoff
       ELSE /\ dpc' = "parked"
            /\ UNCHANGED <<chClosed, cpc, recvd>>
    /\ UNCHANGED <<tcOp, tcSeq, di, t, ctxDone, cancelAt, notSinkVars>>

\* ToChanCtx: select { case <-ctx.Done(): return; default: }
DriverCheck ==
    /\ dpc = "check"
    /\ IF ctxDone
       THEN DriverReturn
       ELSE /\ dpc' = "select"
            /\ UNCHANGED <<chClosed, cpc>>
    /\ UNCHANGED <<tcOp, tcSeq, di, t, ctxDone, recvd, cancelAt, notSinkVars>>

\* The cases of the second select that can proceed when the driver reaches it.
SelectCases ==
    {k \in {"done", "send"} :
        \/ k = "done" /\ ctxDone
        \/ k = "send" /\ cpc = "waiting"}

\* ToChanCtx: select { case <-ctx.Done(): return; case ch <- t: }
DriverSelect ==
    /\ dpc = "select"
    /\ IF SelectCases = {}
       THEN /\ dpc' = "parked"
            /\ UNCHANGED <<chClosed, cpc, recvd>>
       ELSE \E k \in SelectCases :
              IF k = "done"
              THEN DriverReturn /\ UNCHANGED recvd
              ELSE Handoff
    /\ UNCHANGED <<tcOp, tcSeq, di, t, ctxDone, cancelAt, notSinkVars>>

\* The driver was blocked in the second select when ctx.Done() was closed:
\* case <-ctx.Done(): return
DriverCanceled ==
    /\ dpc = "canceled"
    /\ DriverReturn
    /\ UNCHANGED <<tcOp, tcSeq, di, t, ctxDone, recvd, cancelAt, notSinkVars>>

\* What closing ctx.Done() does to the driver: one blocked in the select of
\* ToChanCtx takes the case <-ctx.Done().
CancelIgnored(d) == d    \* variant: the select without the case <-ctx.Done()
CancelWakes(d) == IF d = "parked" THEN "canceled" ELSE d

\* The consumer's receive: for v := range ch
ConsumerRecv ==
    /\ cpc = "run"
    /\ IF chClosed
       THEN /\ cpc' = "closed"
            /\ UNCHANGED <<dpc, recvd>>
       ELSE IF dpc = "parked"
       THEN /\ recvd' = Append(recvd, t)
            /\ dpc' = "range"
            /\ UNCHANGED cpc
       ELSE /\ cpc' = "waiting"
            /\ UNCHANGED <<dpc, recvd>>
    /\ UNCHANGED <<tcOp, tcSeq, di, t, chClosed, ctxDone, cancelAt, notSinkVars>>

\* The consumer calls cancel() between two receives (if v == 3 { cancel() }).
ConsumerCancel ==
    /\ cpc = "run"
    /\ tcOp = "ToChanCtx"
    /\ ~ctxDone
    /\ ctxDone' = TRUE
    /\ cancelAt' = Len(recvd)
    /\ dpc' = CancelWakes(dpc)
    /\ UNCHANGED <<tcOp, tcSeq, di, t, chClosed, cpc, recvd, notSinkVars>>

\* ctx is canceled by somebody else (a parent context, a deadline), at any time.
CtxCancel ==
    /\ tcOp = "ToChanCtx"
    /\ ~ctxDone
    /\ ctxDone' = TRUE
    /\ dpc' = CancelWakes(dpc)
    /\ UNCHANGED <<tcOp, tcSeq, di, t, chClosed, cpc, recvd, cancelAt, notSinkVars>>

\* The consumer stops receiving and never comes back to ch.
ConsumerStop ==
    /\ cpc = "run"
    /\ cpc' = "stopped"
    /\ UNCHANGED <<tcOp, tcSeq, dpc, di, t, chClosed, ctxDone, recvd, cancelAt, notSinkVars>>

Driver == DriverRange \/ DriverSend \/ DriverCheck \/ DriverSelect \/ DriverCanceled

ChanNext ==
    \/ Driver
    \/ ConsumerRecv
    \/ ConsumerCancel
    \/ CtxCancel
    \/ ConsumerStop

\* The scheduler runs the driver whenever it can run; a consumer that has
\* not stopped goes on to its next receive.
ChanSpec ==
    /\ ChanInit
    /\ [][ChanNext]_vars
    /\ WF_vars(Driver)
    /\ WF_vars(ConsumerRecv)

(***************************************************************************)
(* IntK: func(V) int { return int(i.Add(1)) }                              *)
(***************************************************************************)
\* Invocations each goroutine makes.
MaxInvoke == 2

IntKInit ==
    /\ CmpIdle
    /\ SinkIdle
    /\ PureIdle
    /\ IterIdle
    /\ IntKIdle

\* Goroutine g invokes function f: i.Add(1), one atomic step on f's counter.
KAdd(g, f) ==
    /\ kpc[g] = "idle"
    /\ kn[g] < MaxInvoke
    /\ ctr' = [ctr EXCEPT ![f] = @ + 1]
    /\ kv' = [kv EXCEPT ![g] = ctr[f] + 1]
    /\ kf' = [kf EXCEPT ![g] = f]
    /\ kn' = [kn EXCEPT ![g] = @ + 1]
    /\ kpc' = [kpc EXCEPT ![g] = "ret"]
    /\ UNCHANGED <<kret, notIntKVars>>

\* The invocation returns the value of its Add.
KReturn(g) ==
    /\ kpc[g] = "ret"
    /\ kret' = [kret EXCEPT ![kf[g]] = Append(@, kv[g])]
    /\ kpc' = [kpc EXCEPT ![g] = "idle"]
    /\ UNCHANGED <<ctr, kf, kv, kn, notIntKVars>>

IntKNext ==
    \/ \E g \in Invokers, f \in IntKs : KAdd(g, f)
    \/ \E g \in Invokers : KReturn(g)

IntKSpec == IntKInit /\ [][IntKNext]_vars

(***************************************************************************)
(* Functions that consume a whole sequence, computed loop by loop as the   *)
(* code does.  In every loop n is the number of elements already taken     *)
(* from the sequence.                                                      *)
(***************************************************************************)
\* Longest sequence a function is applied to.
PureLen == MaxLen + 1

\* Single-value arguments: With(...) of ints.
PSeqs == SeqsUpTo(Vals, PureLen)

\* Key-value arguments: WithKV(...) of KV[string, int], the zero key and
\* negative values included.
PKeys == {"", "a"}
PVals == {-1, 0, 1}
PKV == [K : PKeys, V : PVals]
PKVSeqs == SeqsUpTo(PKV, PureLen)

\* var prev KV[K, V]; var z T: the zero values.
ZeroKV == [K |-> "", V |-> 0]
ZeroT == 0

\* The key IterKV(seq, IntK[T]()) pairs with the n-th element of seq: the
\* value of the n-th i.Add(1) on a fresh counter.
IntKKey(n) == IntKStore("k1") + n

\* Find: for i, t = range IterKV(seq, IntK[T]()) { if t == value { return i, true } }
\*       return i + 1, false
RECURSIVE FindLoop(_, _, _, _)
FindLoop(seq, value, n, i) ==
    IF n < Len(seq)
    THEN IF seq[n + 1] = value
         THEN [i |-> IntKKey(n + 1), ok |-> TRUE]
         ELSE FindLoop(seq, value, n + 1, IntKKey(n + 1))
    ELSE [i |-> i + 1, ok |-> FALSE]

\* var i int
Find(seq, value) == FindLoop(seq, value, 0, 0)

\* FindBy: the same loop with fn(t) for t == value; fn is given by the set
\* of the values it accepts.
RECURSIVE FindByLoop(_, _, _, _)
FindByLoop(seq, fn, n, i) ==
    IF n < Len(seq)
    THEN IF seq[n + 1] \in fn
         THEN [v |-> seq[n + 1], i |-> IntKKey(n + 1), ok |-> TRUE]
         ELSE FindByLoop(seq, fn, n + 1, IntKKey(n + 1))
    ELSE [v |-> ZeroT, i |-> i + 1, ok |-> FALSE]

FindBy(seq, fn) == FindByLoop(seq, fn, 0, 0)

\* FindByKey: for k, v := range seq { if k == key { return v, i, true }; i++ }
\*            return v (zero), i, false
RECURSIVE FindByKeyLoop(_, _, _, _)
FindByKeyLoop(seq, key, n, i) ==
    IF n < Len(seq)
    THEN IF seq[n + 1].K = key
         THEN [v |-> seq[n + 1].V, i |-> i, ok |-> TRUE]
         ELSE FindByKeyLoop(seq, key, n + 1, i + 1)
    ELSE [v |-> ZeroKV.V, i |-> i, ok |-> FALSE]

FindByKey(seq, key) == FindByKeyLoop(seq, key, 0, 0)

\* FindByValue: the same with v == value, returning the key.
RECURSIVE FindByValueLoop(_, _, _, _)
FindByValueLoop(seq, value, n, i) ==
    IF n < Len(seq)
    THEN IF seq[n + 1].V = value
         THEN [k |-> seq[n + 1].K, i |-> i, ok |-> TRUE]
         ELSE FindByValueLoop(seq, value, n + 1, i + 1)
    ELSE [k |-> ZeroKV.K, i |-> i, ok |-> FALSE]

FindByValue(seq, value) == FindByValueLoop(seq, value, 0, 0)

\* The equal functions passed to CompactFunc and CompactKVFunc:
\*   "=="      func(a, b) bool { return a == b }
\*   "sameKey" func(a, b tKV) bool { return a.K == b.K }
NeverEqual(name, x, y) == FALSE    \* variant: no two elements taken for equal
EqualFn(name, x, y) ==
    IF name = "sameKey" THEN x.K = y.K ELSE x = y

\* Compact / CompactFunc:
\*   var prev T
\*   for i, t := range IterKV(seq, IntK[T]()) {
\*     switch i { case 0: prev = t; yield(t)
\*                default: if !equal(prev, t) { prev = t; yield(t) } } }
\* The value is the sequence of the elements yielded.
RECURSIVE CompactLoop(_, _, _, _)
CompactLoop(seq, equal, n, prev) ==
    IF n < Len(seq)
    THEN LET i == IntKKey(n + 1)
             tv == seq[n + 1]
         IN  IF i = 0
             THEN <<tv>> \o CompactLoop(seq, equal, n + 1, tv)
             ELSE IF ~EqualFn(equal, prev, tv)
             THEN <<tv>> \o CompactLoop(seq, equal, n + 1, tv)
             ELSE CompactLoop(seq, equal, n + 1, prev)
    ELSE <<>>

\* Compact compares with prev != t.
Compact(seq, zero) == CompactLoop(seq, "==", 0, zero)
CompactFunc(seq, equal, zero) == CompactLoop(seq, equal, 0, zero)

\* CompactKV / CompactKVFunc:
\*   var prev KV[K, V]
\*   for k, v := range seq {
\*     if !equal(prev, KV[K, V]{K: k, V: v}) { prev.K = k; prev.V = v; yield(k, v) } }
RECURSIVE CompactKVLoop(_, _, _, _)
CompactKVLoop(seq, equal, n, prev) ==
    IF n < Len(seq)
    THEN LET pair == seq[n + 1]
         IN  IF ~EqualFn(equal, prev, pair)
             THEN <<pair>> \o CompactKVLoop(seq, equal, n + 1, pair)
             ELSE CompactKVLoop(seq, equal, n + 1, prev)
    ELSE <<>>

\* CompactKV compares with prev.K != k || prev.V != v.
CompactKV(seq) == CompactKVLoop(seq, "==", 0, ZeroKV)
CompactKVFunc(seq, equal) == CompactKVLoop(seq, equal, 0, ZeroKV)

\* IsSortedKV:
\*   var prev KV[K, V]
\*   for k, v := range seq {
\*     if cmp.Compare(k, prev.K) < 0 || cmp.Compare(v, prev.V) < 0 { return false }
\*     prev.K = k; prev.V = v }
\*   return true
RECURSIVE IsSortedKVLoop(_, _, _)
IsSortedKVLoop(seq, n, prev) ==
    IF n < Len(seq)
    THEN LET pair == seq[n + 1]
         IN  IF \/ cmpCompare(KeyRank(pair.K), KeyRank(prev.K)) < 0
                \/ cmpCompare(pair.V, prev.V) < 0
             THEN FALSE
             ELSE IsSortedKVLoop(seq, n + 1, pair)
    ELSE TRUE

IsSortedKV(seq) == IsSortedKVLoop(seq, 0, ZeroKV)

\* Chunk: if len(chunk) > 0 { yield(With(chunk...)) } after the loop.
AlwaysFlush(chunk) == TRUE    \* variant: the rest yielded without the test
FlushRest(chunk) == Len(chunk) > 0

\* Chunk:
\*   var chunk []T
\*   for t := range seq {
\*     chunk = append(chunk, t)
\*     if len(chunk) == size { yield(With(chunk...)); chunk = nil } }
\*   if len(chunk) > 0 { yield(With(chunk...)) }
\* The value is the sequence of the chunks yielded.
RECURSIVE ChunkLoop(_, _, _, _)
ChunkLoop(seq, size, n, chunk) ==
    IF n < Len(seq)
    THEN LET appended == Append(chunk, seq[n + 1])
         IN  IF Len(appended) = size
             THEN <<appended>> \o ChunkLoop(seq, size, n + 1, <<>>)
             ELSE ChunkLoop(seq, size, n + 1, appended)
    ELSE IF FlushRest(chunk) THEN <<chunk>> ELSE <<>>

Chunk(seq, size) == ChunkLoop(seq, size, 0, <<>>)

\* Drop: if i < n { continue }
SkipsThrough(i, n) == i <= n    \* variant: i <= n
Skips(i, n) == i < n

\* Drop:
\*   for i, t := range IterKV(seq, IntK[T]()) {
\*     if i < n { continue }
\*     yield(t) }
\* The value is the sequence of the elements yielded (m elements taken so far).
RECURSIVE Drop(_, _, _)
Drop(seq, n, m) ==
    IF m < Len(seq)
    THEN IF Skips(IntKKey(m + 1), n)
         THEN Drop(seq, n, m + 1)
         ELSE <<seq[m + 1]>> \o Drop(seq, n, m + 1)
    ELSE <<>>

\* Coalesce: if t != value (value is the zero value)
Positive(v, zero) == v > zero    \* variant: t > value
NonZero(v, zero) == v # zero

\* Coalesce: var value T; var found bool
\*   for t := range seq { if t != value { return t, true } }
\*   return value, found
RECURSIVE Coalesce(_, _)
Coalesce(seq, m) ==
    IF m < Len(seq)
    THEN IF NonZero(seq[m + 1], ZeroT)
         THEN [v |-> seq[m + 1], ok |-> TRUE]
         ELSE Coalesce(seq, m + 1)
    ELSE [v |-> ZeroT, ok |-> FALSE]

\* CoalesceKV: var value V; var found bool
\*   for k, v := range seq { if v != value { return KV[K, V]{K: k, V: v}, true } }
\*   return KV[K, V]{}, found
RECURSIVE CoalesceKV(_, _)
CoalesceKV(seq, m) ==
    IF m < Len(seq)
    THEN IF NonZero(seq[m + 1].V, ZeroKV.V)
         THEN [v |-> seq[m + 1], ok |-> TRUE]
         ELSE CoalesceKV(seq, m + 1)
    ELSE [v |-> ZeroKV, ok |-> FALSE]

\* MaxFunc: if compare(t, mt) > 0 { mt = t }; MinFunc: if compare(t, mt) < 0 { mt = t }
ReplacesOnTie(name, r) ==    \* variant: >= 0 and <= 0
    IF name \in {"MaxFunc", "MaxFuncKV"} THEN r >= 0 ELSE r <= 0
Replaces(name, r) ==
    IF name \in {"MaxFunc", "MaxFuncKV"} THEN r > 0 ELSE r < 0

\* MinFunc / MaxFunc:
\*   var mt T; var value bool
\*   for i, t := range IterKV(seq, IntK[T]()) {
\*     switch i { case 0: mt = t; value = true
\*                default: if compare(t, mt) < 0 { mt = t } } }
\*   return mt, value
\* res holds mt (v), value (ok) and the calls of compare made so far, each
\* with its two arguments.
RECURSIVE MinMaxFunc(_, _, _, _, _)
MinMaxFunc(name, seq, cmpFn, m, res) ==
    IF m < Len(seq)
    THEN LET i == IntKKey(m + 1)
             tv == seq[m + 1]
         IN  IF i = 0
             THEN MinMaxFunc(name, seq, cmpFn, m + 1,
                             [v |-> tv, ok |-> TRUE, calls |-> res.calls])
             ELSE MinMaxFunc(name, seq, cmpFn, m + 1,
                    [v |-> IF Replaces(name, CallerCmp(cmpFn, tv, res.v))
                           THEN tv ELSE res.v,
                     ok |-> res.ok,
                     calls |-> Append(res.calls, <<tv, res.v>>)])
    ELSE res

\* MinFuncKV / MaxFuncKV: the same with var i int ... i++ for the index and
\* t := KV[K, V]{K: k, V: v}.
RECURSIVE MinMaxFuncKV(_, _, _, _, _)
MinMaxFuncKV(name, seq, cmpFn, i, res) ==
    IF i < Len(seq)
    THEN LET tv == seq[i + 1]
         IN  IF i = 0
             THEN MinMaxFuncKV(name, seq, cmpFn, i + 1,
                               [v |-> tv, ok |-> TRUE, calls |-> res.calls])
             ELSE MinMaxFuncKV(name, seq, cmpFn, i + 1,
                    [v |-> IF Replaces(name, CallerCmp(cmpFn, tv, res.v))
                           THEN tv ELSE res.v,
                     ok |-> res.ok,
                     calls |-> Append(res.calls, <<tv, res.v>>)])
    ELSE res

\* A sequence is built; no function has been applied to it yet.
PureInit ==
    /\ CmpIdle
    /\ SinkIdle
    /\ IntKIdle
    /\ IterIdle
    /\ pfn = [name |-> "none", x |-> 0]
    /\ \/ \E seq \in PSeqs : parg = [kind |-> "T", s |-> seq]
       \/ \E seq \in PKVSeqs : parg = [kind |-> "KV", s |-> seq]
    /\ pret = <<>>

\* Find(seq, value), the value in the sequence or not (MaxVal + 1).
ApplyFind ==
    /\ pfn.name = "none" /\ parg.kind = "T"
    /\ \E value \in 0..(MaxVal + 1) :
         /\ pfn' = [name |-> "Find", x |-> value]
         /\ pret' = Find(parg.s, value)
    /\ UNCHANGED <<parg, notPureVars>>

\* FindBy(seq, fn)
ApplyFindBy ==
    /\ pfn.name = "none" /\ parg.kind = "T"
    /\ \E fn \in SUBSET Vals :
         /\ pfn' = [name |-> "FindBy", x |-> fn]
         /\ pret' = FindBy(parg.s, fn)
    /\ UNCHANGED <<parg, notPureVars>>

\* FindByKey(seq, key), the key in the sequence or not ("b").
ApplyFindByKey ==
    /\ pfn.name = "none" /\ parg.kind = "KV"
    /\ \E key \in PKeys \cup {"b"} :
         /\ pfn' = [name |-> "FindByKey", x |-> key]
         /\ pret' = FindByKey(parg.s, key)
    /\ UNCHANGED <<parg, notPureVars>>

\* FindByValue(seq, value), the value in the sequence or not (2).
ApplyFindByValue ==
    /\ pfn.name = "none" /\ parg.kind = "KV"
    /\ \E value \in PVals \cup {2} :
         /\ pfn' = [name |-> "FindByValue", x |-> value]
         /\ pret' = FindByValue(parg.s, value)
    /\ UNCHANGED <<parg, notPureVars>>

\* Compact(seq); applied again, Compact(Compact(seq)): the argument of the
\* second application is what the first has yielded (pfn.x counts the
\* applications before this one).
ApplyCompact ==
    /\ parg.kind = "T"
    /\ \/ /\ pfn.name = "none"
          /\ pfn' = [name |-> "Compact", x |-> 0]
          /\ pret' = Compact(parg.s, ZeroT)
          /\ UNCHANGED parg
       \/ /\ pfn.name = "Compact" /\ pfn.x = 0
          /\ pfn' = [name |-> "Compact", x |-> 1]
          /\ parg' = [kind |-> "T", s |-> pret]
          /\ pret' = Compact(pret, ZeroT)
    /\ UNCHANGED notPureVars

\* CompactFunc(seq, equal) on single values
ApplyCompactFunc ==
    /\ pfn.name = "none" /\ parg.kind = "T"
    /\ pfn' = [name |-> "CompactFunc", x |-> "=="]
    /\ pret' = CompactFunc(parg.s, "==", ZeroT)
    /\ UNCHANGED <<parg, notPureVars>>

\* CompactKV(seq)
ApplyCompactKV ==
    /\ pfn.name = "none" /\ parg.kind = "KV"
    /\ pfn' = [name |-> "CompactKV", x |-> "=="]
    /\ pret' = CompactKV(parg.s)
    /\ UNCHANGED <<parg, notPureVars>>

\* CompactKVFunc(seq, equal)
ApplyCompactKVFunc ==
    /\ pfn.name = "none" /\ parg.kind = "KV"
    /\ \E equal \in {"==", "sameKey"} :
         /\ pfn' = [name |-> "CompactKVFunc", x |-> equal]
         /\ pret' = CompactKVFunc(parg.s, equal)
    /\ UNCHANGED <<parg, notPureVars>>

\* IsSortedKV(seq)
ApplyIsSortedKV ==
    /\ pfn.name = "none" /\ parg.kind = "KV"
    /\ pfn' = [name |-> "IsSortedKV", x |-> 0]
    /\ pret' = IsSortedKV(parg.s)
    /\ UNCHANGED <<parg, notPureVars>>

\* Chunk(seq, size), every chunk run to its end
ApplyChunk ==
    /\ pfn.name = "none" /\ parg.kind = "T"
    /\ \E size \in 0..(PureLen + 1) :
         /\ pfn' = [name |-> "Chunk", x |-> size]
         /\ pret' = Chunk(parg.s, size)
    /\ UNCHANGED <<parg, notPureVars>>

\* Drop(seq, n), n from below zero to beyond the length
ApplyDrop ==
    /\ pfn.name = "none" /\ parg.kind = "T"
    /\ \E n \in (-1)..(PureLen + 1) :
         /\ pfn' = [name |-> "Drop", x |-> n]
         /\ pret' = Drop(parg.s, n, 0)
    /\ UNCHANGED <<parg, notPureVars>>

\* Coalesce(seq)
ApplyCoalesce ==
    /\ pfn.name = "none" /\ parg.kind = "T"
    /\ pfn' = [name |-> "Coalesce", x |-> 0]
    /\ pret' = Coalesce(parg.s, 0)
    /\ UNCHANGED <<parg, notPureVars>>

\* CoalesceKV(seq)
ApplyCoalesceKV ==
    /\ pfn.name = "none" /\ parg.kind = "KV"
    /\ pfn' = [name |-> "CoalesceKV", x |-> 0]
    /\ pret' = CoalesceKV(parg.s, 0)
    /\ UNCHANGED <<parg, notPureVars>>

\* MinFunc(seq, compare)
ApplyMinFunc ==
    /\ pfn.name = "none" /\ parg.kind = "T"
    /\ pfn' = [name |-> "MinFunc", x |-> "diff"]
    /\ pret' = MinMaxFunc("MinFunc", parg.s, "diff", 0,
                          [v |-> ZeroT, ok |-> FALSE, calls |-> <<>>])
    /\ UNCHANGED <<parg, notPureVars>>

\* MaxFunc(seq, compare)
ApplyMaxFunc ==
    /\ pfn.name = "none" /\ parg.kind = "T"
    /\ pfn' = [name |-> "MaxFunc", x |-> "diff"]
    /\ pret' = MinMaxFunc("MaxFunc", parg.s, "diff", 0,
                          [v |-> ZeroT, ok |-> FALSE, calls |-> <<>>])
    /\ UNCHANGED <<parg, notPureVars>>

\* MinFuncKV(seq, compare)
ApplyMinFuncKV ==
    /\ pfn.name = "none" /\ parg.kind = "KV"
    /\ \E cmpFn \in KVFuncCmps :
         /\ pfn' = [name |-> "MinFuncKV", x |-> cmpFn]
         /\ pret' = MinMaxFuncKV("MinFuncKV", parg.s, cmpFn, 0,
                                 [v |-> ZeroKV, ok |-> FALSE, calls |-> <<>>])
    /\ UNCHANGED <<parg, notPureVars>>

\* MaxFuncKV(seq, compare)
ApplyMaxFuncKV ==
    /\ pfn.name = "none" /\ parg.kind = "KV"
    /\ \E cmpFn \in KVFuncCmps :
         /\ pfn' = [name |-> "MaxFuncKV", x |-> cmpFn]
         /\ pret' = MinMaxFuncKV("MaxFuncKV", parg.s, cmpFn, 0,
                                 [v |-> ZeroKV, ok |-> FALSE, calls |-> <<>>])
    /\ UNCHANGED <<parg, notPureVars>>

PureNext ==
    \/ ApplyMinFunc
    \/ ApplyMaxFunc
    \/ ApplyMinFuncKV
    \/ ApplyMaxFuncKV
    \/ ApplyCoalesce
    \/ ApplyCoalesceKV
    \/ ApplyDrop
    \/ ApplyCompact
    \/ ApplyCompactFunc
    \/ ApplyCompactKV
    \/ ApplyCompactKVFunc
    \/ ApplyIsSortedKV
    \/ ApplyChunk
    \/ ApplyFind
    \/ ApplyFindBy
    \/ ApplyFindByKey
    \/ ApplyFindByValue

PureSpec == PureInit /\ [][PureNext]_vars

(***************************************************************************)
(* Lazy sequences: the sequence object a function returns, iterated by a   *)
(* consumer that accepts each value (yield returns true) or stops (break:  *)
(* yield returns false).  The source is a With(...) sequence, which hands  *)
(* its elements one by one to the body and returns when the body returns   *)
(* false.                                                                  *)
(***************************************************************************)
\* The functions fn passed to Map: "inc" is func(v int) int { return v + 1 }.
MapFn(name, v) == v + 1

\* if !yield(...) { return }: where the iteration goes on after the
\* consumer's answer.
IgnoreStop(ok) == "loop"    \* variant: the answer of yield ignored
AfterYield(ok) == IF ok THEN "loop" ELSE "end"

\* The call op(src, arg) is made; cap holds the argument the closure will
\* capture and update, if any.
Called(o, src, arg, cap) == [Built(o, src, arg, cap) EXCEPT !.pc = "call"]

\* The tick intervals d passed to EveryN and EveryUntil (in units of time);
\* not all are positive.
Intervals == {-1, 0, 1}

\* The functions whose sequence ranges over time.Tick(d).
Timers == {"EveryN", "EveryUntil"}

\* time.Tick(d) is outside the package: for d <= 0 it returns a nil channel,
\* and a range over a nil channel blocks for ever.
TimeTick(d) == IF d > 0 THEN "tick" ELSE "blocked"

\* Where the closure starts when the consumer ranges over the sequence:
\*   EveryN: if times == 0 { return }; for now := range time.Tick(d)
\*   EveryUntil: for now := range time.Tick(d)
\*   the others: the loop over the source
Entry(o, arg, cap) ==
    IF o = "EveryN" THEN (IF cap = 0 THEN "end" ELSE TimeTick(arg.d))
    ELSE IF o = "EveryUntil" THEN TimeTick(arg.d)
    ELSE "loop"

\* The two definitions of Append.
AppendDefs == {"seq.go:130", "seq.go:1033"}

\* The calls whose sequence objects are modelled.
IterInit ==
    /\ CmpIdle
    /\ SinkIdle
    /\ IntKIdle
    /\ PureIdle
    /\ \/ \E src \in PSeqs : it = Called("Map", src, "inc", 0)
       \/ \E src \in PSeqs, fn \in SUBSET Vals : it = Called("Filter", src, fn, 0)
       \/ \E src \in With, items \in With, def \in AppendDefs :
            it = Called("Append", src, [def |-> def, items |-> items], 0)
       \/ \E src \in WithKV, n \in -1..(MaxLen + 1) : it = Called("DropKV", src, n, 0)
       \/ \E d \in Intervals, times \in 0..MaxLen :
            it = Called("EveryN", <<>>, [d |-> d, times |-> times], times)
       \/ \E d \in Intervals, until \in 0..MaxLen :
            it = Called("EveryUntil", <<>>, [d |-> d, until |-> until], 0)

\* The functions that range over src with a With-like source loop.
SrcOps == {"Map", "Filter", "DropKV", "Append"}

\* The call returns the sequence object: return func(yield ...) { ... }
\* Nothing else runs at the call, but for DropKV: i := -1
Call ==
    /\ it.pc = "call"
    /\ it' = [it EXCEPT !.pc = "built",
                        !.cap = IF it.op = "DropKV" THEN -1 ELSE @]
    /\ UNCHANGED notIterVars

\* for v := range Map(...): the consumer starts its first iteration.
IterStart ==
    /\ it.pc = "built"
    /\ it' = [it EXCEPT !.pc = Entry(it.op, it.arg, it.cap), !.iter = 1]
    /\ UNCHANGED notIterVars

\* The consumer ranges over the same sequence object a second time, after
\* the first iteration has ended (run to its end or stopped by a break).
\* Only what the closure captured is kept from the first iteration.
IterAgain ==
    /\ it.pc = "end"
    /\ it.iter = 1
    /\ it' = [Built(it.op, it.src, it.arg, it.cap) EXCEPT
                 !.pc = Entry(it.op, it.arg, it.cap), !.iter = 2,
                 !.first = it.out]
    /\ UNCHANGED notIterVars

\* With: for _, t := range v { if !yield(t) { return } }
\* The source hands its next element to the body, or is exhausted.
SrcNext ==
    /\ it.pc = "loop"
    /\ it.op \in SrcOps
    /\ IF it.pulled < Len(it.src)
       THEN it' = [it EXCEPT !.pulled = @ + 1, !.cur = it.src[it.pulled + 1],
                             !.pc = IF it.op = "Append" THEN "yield" ELSE "body"]
       ELSE it' = [it EXCEPT !.pc = IF it.op = "Append" THEN "items" ELSE "end"]
    /\ UNCHANGED notIterVars

\* Map: yield(fn(o)), the evaluation of fn(o)
MapBody ==
    /\ it.op = "Map"
    /\ it.pc = "body"
    /\ it' = [it EXCEPT !.fnOn = Append(@, it.cur),
                        !.cur = MapFn(it.arg, it.cur),
                        !.pc = "yield"]
    /\ UNCHANGED notIterVars

\* Filter: if fn(t) { return yield(t) }; return true
\* fn is given by the set of the values it accepts.
FilterBody ==
    /\ it.op = "Filter"
    /\ it.pc = "body"
    /\ it' = [it EXCEPT !.fnOn = Append(@, it.cur),
                        !.pc = IF it.cur \in it.arg THEN "yield" ELSE "loop"]
    /\ UNCHANGED notIterVars

\* DropKV: i++; if i < n { continue }
\* i is the variable of DropKV the closure captured.
DropKVBody ==
    /\ it.op = "DropKV"
    /\ it.pc = "body"
    /\ it' = [it EXCEPT !.cap = @ + 1,
                        !.pc = IF Skips(it.cap + 1, it.arg) THEN "loop" ELSE "yield"]
    /\ UNCHANGED notIterVars

\* The consumer's loop body runs on the value passed to yield and either
\* goes on (true) or breaks (false): if !yield(...) { return }
Yield ==
    /\ it.pc = "yield"
    /\ it.op \in SrcOps \ {"Append"}
    /\ \E ok \in BOOLEAN :
         it' = [it EXCEPT !.out = Append(@, it.cur), !.stop = ~ok,
                          !.pc = AfterYield(ok)]
    /\ UNCHANGED notIterVars

\* Where Append goes on once the consumer has answered false to an element
\* of seq:
\*   seq.go:130   for item := range seq { if !yield(item) { return } }
\*   seq.go:1033  seq(yield), whose return says nothing of the answer; the
\*                loop over items follows
AfterStop(def) == IF def = "seq.go:130" THEN "end" ELSE "items"

\* Append: an element of seq is passed to the consumer's yield.
AppendYield ==
    /\ it.op = "Append"
    /\ it.pc = "yield"
    /\ \E ok \in BOOLEAN :
         it' = [it EXCEPT !.out = Append(@, it.cur), !.stop = ~ok,
                          !.pc = IF ok THEN "loop" ELSE AfterStop(it.arg.def)]
    /\ UNCHANGED notIterVars

\* Append: for _, item := range items { if !yield(item) { return } }
\* The items yielded so far are those of out past the elements of seq.  A
\* yield called after it has answered false is counted in late: the function
\* of a range loop panics at such a call, any other callback runs again.
AppendItem ==
    /\ it.op = "Append"
    /\ it.pc = "items"
    /\ LET k == Len(it.out) - it.pulled IN
         IF k < Len(it.arg.items)
         THEN \/ \E ok \in BOOLEAN :
                   it' = [it EXCEPT !.out = Append(@, it.arg.items[k + 1]),
                                    !.late = IF it.stop THEN @ + 1 ELSE @,
                                    !.stop = @ \/ ~ok,
                                    !.pc = IF ok THEN "items" ELSE "end"]
              \/ /\ it.stop
                 /\ it' = [it EXCEPT !.late = @ + 1, !.pc = "panic"]
         ELSE it' = [it EXCEPT !.pc = "end"]
    /\ UNCHANGED notIterVars

\* for now := range time.Tick(d): the next tick arrives (now counts the
\* ticks).  EveryUntil: if now.After(until) { return }
Tick ==
    /\ it.pc = "tick"
    /\ it' = [it EXCEPT !.pulled = @ + 1, !.cur = it.pulled + 1,
                        !.pc = IF it.op = "EveryUntil" /\ it.pulled + 1 > it.arg.until
                               THEN "end" ELSE "yield"]
    /\ UNCHANGED notIterVars

\* EveryN: if !yield(now) { return }; times--; if times == 0 { return }
EveryNYield ==
    /\ it.op = "EveryN"
    /\ it.pc = "yield"
    /\ \E ok \in BOOLEAN :
         it' = [it EXCEPT !.out = Append(@, it.cur), !.stop = ~ok,
                          !.cap = IF ok THEN @ - 1 ELSE @,
                          !.pc = IF ok /\ it.cap - 1 # 0 THEN "tick" ELSE "end"]
    /\ UNCHANGED notIterVars

\* EveryUntil: if !yield(now) { return }; if now.After(until) { return }
EveryUntilYield ==
    /\ it.op = "EveryUntil"
    /\ it.pc = "yield"
    /\ \E ok \in BOOLEAN :
         it' = [it EXCEPT !.out = Append(@, it.cur), !.stop = ~ok,
                          !.pc = IF ok /\ ~(it.cur > it.arg.until) THEN "tick" ELSE "end"]
    /\ UNCHANGED notIterVars

IterNext ==
    \/ Call
    \/ IterStart
    \/ IterAgain
    \/ Tick
    \/ EveryNYield
    \/ EveryUntilYield
    \/ SrcNext
    \/ MapBody
    \/ FilterBody
    \/ DropKVBody
    \/ AppendYield
    \/ AppendItem
    \/ Yield

IterSpec == IterInit /\ [][IterNext]_vars

(***************************************************************************)

(* Properties.                                                             *)
(***************************************************************************)
Done(c) == pc[c] = "done"

\* b has an element at position i (1-based).
BHas(c, i) == bLoop[c] \/ i <= Len(b[c])

\* The positions at which both a and b have an element.
Common(c) == {i \in 1..Len(a[c]) : BHas(c, i)}

\* The comparator's value on the elements at position i.
CmpAt(c, i) == Apply(compare[c], a[c][i], BAt(c, i))

\* The smallest common position where the comparator is non-zero (at most one).
FirstDiff(c) ==
    {i \in Common(c) : CmpAt(c, i) # 0 /\ \A j \in 1..(i - 1) : CmpAt(c, j) = 0}

\* The result by length alone: shorter is less.
LenRule(c) ==
    IF bLoop[c] \/ Len(a[c]) < Len(b[c]) THEN -1
    ELSE IF Len(a[c]) > Len(b[c]) THEN 1
    ELSE 0

\* C1: the first non-zero comparator result, at position i, is returned as it
\* is, whatever follows position i and whatever the lengths, in every
\* interleaving of the two routines.
C1_FirstMismatchDecides ==
    \A c \in Calls : Done(c) =>
        \A i \in FirstDiff(c) : result[c] = CmpAt(c, i)

\* A call decided at its first position, with elements after it and
\* different lengths, by a comparator result that is not -1, 0 or +1.
C1_Witness ==
    /\ Done("c1")
    /\ FirstDiff("c1") = {1}
    /\ Len(a["c1"]) = 2 /\ Len(b["c1"]) = 1
    /\ result["c1"] = 2

\* C2: when the comparator is 0 at every common position, the result is -1
\* if a is shorter, +1 if b is shorter, 0 if the lengths are equal.
C2_LengthRule ==
    \A c \in Calls : (Done(c) /\ FirstDiff(c) = {}) => result[c] = LenRule(c)

\* A strict prefix compared both ways: a shorter in c1, b shorter in c2.
C2_Witness ==
    /\ Done("c1") /\ Done("c2")
    /\ FirstDiff("c1") = {} /\ FirstDiff("c2") = {}
    /\ Len(a["c1"]) = 1 /\ Len(b["c1"]) = 2
    /\ Len(a["c2"]) = 2 /\ Len(b["c2"]) = 1
    /\ result["c1"] = -1 /\ result["c2"] = 1

\* C3: a call that has started returns: the comparing routine never stays
\* blocked on its receive from bvals.
C3_CallReturns ==
    \A c \in Calls : (pc[c] = "start") ~> Done(c)

\* A key-value call that returned because it found bvals closed.
C3_Witness ==
    /\ Done("c1")
    /\ op["c1"] = "CompareKVFunc"
    /\ bvalsClosed["c1"]
    /\ Len(log["c1"]) = 1
    /\ result["c1"] = 1

\* C4: once the call has returned, the goroutine driving b terminates and
\* closes bvals, also when b is endless.
C4_GoroutineTerminates ==
    \A c \in Calls : Done(c) ~> (gpc[c] = "done" /\ bvalsClosed[c])

\* The goroutine of a returned call on an endless b has terminated, leaving
\* an element it pulled and never handed over.
C4_Witness ==
    /\ Done("c1")
    /\ bLoop["c1"]
    /\ gpc["c1"] = "done" /\ bvalsClosed["c1"]
    /\ bi["c1"] = nrecv["c1"] + 1

\* C5: the goroutine is never more than one element of b ahead of the
\* comparing routine; after a mismatch at position i (1-based) it has pulled
\* at most i + 1 elements.
C5_BoundedOverProduction ==
    \A c \in Calls :
        /\ nrecv[c] <= bi[c]
        /\ bi[c] <= nrecv[c] + 1
        /\ Done(c) => \A i \in FirstDiff(c) : bi[c] <= i + 1

\* A mismatch at the first position, after which the goroutine pulled the
\* second element of b.
C5_Witness ==
    /\ Done("c1")
    /\ FirstDiff("c1") = {1}
    /\ bi["c1"] = 2

\* C6: the k-th invocation of the comparator is on (a[k], b[k]); every
\* invocation but the last returned 0; there are no more invocations than
\* common positions.
C6_ComparatorOncePerIndex ==
    \A c \in Calls :
        /\ Len(log[c]) <= Cardinality(Common(c))
        /\ \A k \in 1..Len(log[c]) :
              /\ log[c][k].i = k /\ log[c][k].j = k
              /\ log[c][k].x = a[c][k] /\ log[c][k].y = BAt(c, k)
              /\ log[c][k].r = Apply(compare[c], a[c][k], BAt(c, k))
              /\ k < Len(log[c]) => log[c][k].r = 0

\* A call on an endless b that returned at its second invocation of the
\* comparator, the first one to return non-zero.
C6_Witness ==
    /\ Done("c1")
    /\ Len(log["c1"]) = 2
    /\ log["c1"][2].r > 0
    /\ bLoop["c1"]

\* C7 (as claimed): every result is -1, 0 or +1.
C7_ResultIsSign ==
    \A c \in Calls : Done(c) => result[c] \in {-1, 0, 1}

\* C8: CompareFunc(a, b, C) = -CompareFunc(b, a, flip(C)).
C8_Antisymmetry ==
    ( /\ Done("c1") /\ Done("c2")
      /\ a["c2"] = b["c1"] /\ b["c2"] = a["c1"]
      /\ compare["c2"] = Flip(compare["c1"]) )
    => result["c1"] = 0 - result["c2"]

\* Both calls returned, the first with b shorter than a.
C8_Witness ==
    /\ Done("c1") /\ Done("c2")
    /\ op["c2"] = "CompareFunc"
    /\ a["c2"] = b["c1"] /\ b["c2"] = a["c1"]
    /\ compare["c2"] = Flip(compare["c1"])
    /\ Len(b["c1"]) < Len(a["c1"])
    /\ result["c1"] = 1

\* a and b are the same finite sequence.
SameSeq(c) == ~bLoop[c] /\ a[c] = b[c]

\* C9: Equal(a, b) is true exactly when Compare(a, b) = 0, that is when a
\* and b have the same length and the same elements; EqualKV(a, b) is true
\* exactly when CompareKV(a, b) = 0.
C9_EqualIffCompareZero ==
    ( /\ Done("c1") /\ Done("c2")
      /\ op["c2"] \in {"Equal", "EqualKV"}
      /\ a["c2"] = a["c1"] /\ b["c2"] = b["c1"] /\ bLoop["c2"] = bLoop["c1"] )
    => /\ (result["c2"] = 0) <=> (result["c1"] = 0)
       /\ (result["c2"] = 0) <=> SameSeq("c1")

\* EqualKV after CompareKV on two pair sequences with the same keys and
\* different values.
C9_Witness ==
    /\ Done("c1") /\ Done("c2")
    /\ op["c1"] = "CompareKV" /\ op["c2"] = "EqualKV"
    /\ Len(a["c1"]) = 2 /\ Len(b["c1"]) = 2
    /\ \A k \in 1..2 : a["c1"][k].K = b["c1"][k].K
    /\ a["c1"][2].V # b["c1"][2].V
    /\ result["c2"] # 0

\* The order of two pairs: by key, and by value when the keys are equal.
KeyThenValue(x, y) ==
    IF x.K # y.K THEN (IF KeyRank(x.K) < KeyRank(y.K) THEN -1 ELSE 1)
    ELSE IF x.V < y.V THEN -1
    ELSE IF x.V > y.V THEN 1
    ELSE 0

\* The first common position where the pairs differ (at most one).
FirstDiffer(c) ==
    {i \in Common(c) : a[c][i] # b[c][i] /\ \A j \in 1..(i - 1) : a[c][j] = b[c][j]}

\* C10: CompareKV returns the key-then-value order of the pairs at the first
\* position where they differ, and follows the length rule when there is none.
C10_CompareKVLexicographic ==
    \A c \in Calls : (Done(c) /\ op[c] = "CompareKV") =>
        /\ \A i \in FirstDiffer(c) : result[c] = KeyThenValue(a[c][i], b[c][i])
        /\ FirstDiffer(c) = {} => result[c] = LenRule(c)

\* Pairs that first differ at the second position, by value only (the keys
\* there are equal), a's value being the greater.
C10_Witness ==
    /\ Done("c1") /\ op["c1"] = "CompareKV"
    /\ FirstDiffer("c1") = {2}
    /\ a["c1"][2].K = b["c1"][2].K
    /\ a["c1"][2].V > b["c1"][2].V
    /\ result["c1"] = 1

\* The result of the call when it runs alone: the comparator's value at the
\* first position where it is not 0, the length rule when there is none.
Alone(c) ==
    IF FirstDiff(c) # {} THEN CmpAt(c, CHOOSE i \in FirstDiff(c) : TRUE)
    ELSE LenRule(c)

AllReturned == \A c \in Calls : Done(c)

\* C11: of two CompareFunc calls running at the same time on their own
\* sequences, each returns, each returns the result it has when run alone,
\* and once both have returned both goroutines driving b terminate.
C11_ConcurrentCalls ==
    /\ \A c \in Calls : (pc[c] = "start") ~> Done(c)
    /\ [](\A c \in Calls : Done(c) => result[c] = Alone(c))
    /\ AllReturned ~> (\A c \in Calls : gpc[c] = "done" /\ bvalsClosed[c])

\* Both calls have returned on a mismatch, with different results, while
\* c1's goroutine is still blocked in its select.
C11_Witness ==
    /\ AllReturned
    /\ FirstDiff("c1") # {} /\ FirstDiff("c2") # {}
    /\ result["c1"] # result["c2"]
    /\ gpc["c1"] = "select" /\ ~bvalsClosed["c1"]

\* Every element of seq has been sent.
Exhausted == Len(recvd) = Len(tcSeq)

\* C12: the channel of ToChanCtx is closed eventually once the sequence is
\* exhausted or the context is canceled, also when the consumer never
\* receives again.
C12_ChanCtxEventuallyClosed ==
    (tcOp = "ToChanCtx" /\ (ctxDone \/ Exhausted)) ~> chClosed

\* The context was canceled with elements left, the consumer has stopped
\* receiving, and the driver has closed the channel.
C12_Witness ==
    /\ tcOp = "ToChanCtx"
    /\ ctxDone /\ ~Exhausted
    /\ cpc = "stopped"
    /\ di > Len(recvd)
    /\ chClosed

\* C13: a consumer that cancels right after receiving its k-th value and
\* goes on receiving gets no further value: it has received the first k
\* elements and nothing else.
C13_NoValueAfterCancel ==
    (tcOp = "ToChanCtx" /\ cancelAt >= 1) =>
        recvd = SubSeq(tcSeq, 1, cancelAt)

\* C14: the consumer of ToChan receives the elements of seq in order, each
\* once; the channel is not closed before the last element is received; a
\* consumer that keeps receiving gets them all and then finds the channel
\* closed.
C14_ToChanDeliversAll ==
    /\ [](tcOp = "ToChan" =>
            /\ Len(recvd) <= Len(tcSeq)
            /\ recvd = SubSeq(tcSeq, 1, Len(recvd))
            /\ chClosed => recvd = tcSeq)
    /\ (tcOp = "ToChan") ~> (cpc = "stopped" \/ (cpc = "closed" /\ recvd = tcSeq))

\* The consumer has received two different elements and found ch closed.
C14_Witness ==
    /\ tcOp = "ToChan"
    /\ cpc = "closed"
    /\ Len(tcSeq) = 2 /\ tcSeq[1] # tcSeq[2]
    /\ recvd = tcSeq

\* The values function f has returned so far.
Returned(f) == {kret[f][n] : n \in 1..Len(kret[f])}

\* The invocations of f that have done their Add and not yet returned.
InFlight(f) == {g \in Invokers : kpc[g] = "ret" /\ kf[g] = f}

\* C15: the values a function of IntK returns are pairwise distinct, start
\* at 0 and, once its n invocations have returned, are exactly 0..n-1,
\* whether the invocations are sequential or concurrent; the counter of one
\* function is not moved by the invocations of another.
C15_IntKCountsFromZero ==
    \A f \in IntKs :
        /\ Cardinality(Returned(f)) = Len(kret[f])
        /\ Returned(f) \subseteq 0..(Len(kret[f]) + Cardinality(InFlight(f)) - 1)
        /\ InFlight(f) = {} => Returned(f) = 0..(Len(kret[f]) - 1)
        /\ ctr[f] = Len(kret[f]) + Cardinality(InFlight(f)) - 1

\* Two goroutines invoked k1 at the same time and the invocation that added
\* second returned first; k2 was invoked once in between and returned 0.
C15_Witness ==
    /\ kret["k1"] = <<1, 0>>
    /\ kret["k2"] = <<0>>
    /\ \A g \in Invokers : kpc[g] = "idle"

\* The positions (1-based) of the elements the applied Find function looks for.
Matches ==
    {n \in 1..Len(parg.s) :
        IF pfn.name = "Find" THEN parg.s[n] = pfn.x
        ELSE IF pfn.name = "FindBy" THEN parg.s[n] \in pfn.x
        ELSE IF pfn.name = "FindByKey" THEN parg.s[n].K = pfn.x
        ELSE parg.s[n].V = pfn.x}

\* C16: Find, FindBy, FindByKey and FindByValue return found = false and the
\* length of the sequence as index when nothing matches, the empty sequence
\* included, and found = true with the 0-based index of the first match
\* otherwise.
C16_FindIndex ==
    pfn.name \in {"Find", "FindBy", "FindByKey", "FindByValue"} =>
        IF Matches = {}
        THEN ~pret.ok /\ pret.i = Len(parg.s)
        ELSE pret.ok /\ \E n \in Matches :
                 /\ pret.i = n - 1
                 /\ \A m \in Matches : n <= m

\* The first element of the sequence and the first element of every later
\* run of elements that equal takes for equal.
RECURSIVE RunHeads(_, _)
RunHeads(seq, equal) ==
    IF Len(seq) <= 1 THEN seq
    ELSE LET front == SubSeq(seq, 1, Len(seq) - 1)
             last == seq[Len(seq)]
         IN  IF EqualFn(equal, seq[Len(seq) - 1], last)
             THEN RunHeads(front, equal)
             ELSE Append(RunHeads(front, equal), last)

\* C17: CompactKV and CompactKVFunc yield the first pair of every run, the
\* first pair of the sequence included when it is, or compares equal to, the
\* zero value of (K, V): the result is that of Compact / CompactFunc on the
\* pairs taken as single values.
C17_CompactKVRuns ==
    pfn.name \in {"CompactKV", "CompactKVFunc"} =>
        /\ pret = RunHeads(parg.s, pfn.x)
        /\ pret = CompactFunc(parg.s, pfn.x, ZeroKV)

\* No two neighbours of the sequence are equal.
NoAdjacentEqual(seq) == \A n \in 1..(Len(seq) - 1) : seq[n] # seq[n + 1]

\* C18: what Compact yields never has two adjacent equal elements, and
\* Compact applied to what Compact has yielded yields it unchanged.
C18_CompactIdempotent ==
    pfn.name = "Compact" =>
        /\ NoAdjacentEqual(pret)
        /\ pfn.x = 1 => pret = parg.s

\* Compact has dropped elements from a sequence with a run, and a second
\* Compact of the two elements left has yielded both.
C18_Witness ==
    /\ pfn.name = "Compact" /\ pfn.x = 1
    /\ parg.kind = "T"
    /\ Len(pret) = 2 /\ pret[1] # pret[2]
    /\ pret = parg.s

\* Key and value are each non-decreasing from every pair to the next.
AdjacentSorted(seq) ==
    \A n \in 1..(Len(seq) - 1) :
        /\ KeyRank(seq[n].K) <= KeyRank(seq[n + 1].K)
        /\ seq[n].V <= seq[n + 1].V

\* C19: IsSortedKV is true exactly when key and value are each
\* non-decreasing at every step; only adjacent pairs count, so the empty and
\* the single-pair sequences are sorted whatever the pair.
C19_IsSortedKVAdjacent ==
    pfn.name = "IsSortedKV" => (pret <=> AdjacentSorted(parg.s))

\* The concatenation of the chunks.
RECURSIVE Flatten(_)
Flatten(chunks) ==
    IF chunks = <<>> THEN <<>> ELSE Head(chunks) \o Flatten(Tail(chunks))

\* C20: for size >= 1 the chunks of Chunk(seq, size), concatenated in order,
\* are seq; every chunk but the last has size elements, the last has between
\* 1 and size, and no chunk is empty.
C20_ChunkPartition ==
    (pfn.name = "Chunk" /\ pfn.x >= 1) =>
        /\ Flatten(pret) = parg.s
        /\ \A n \in 1..Len(pret) :
             /\ n < Len(pret) => Len(pret[n]) = pfn.x
             /\ Len(pret[n]) >= 1
             /\ Len(pret[n]) <= pfn.x

\* Three elements in chunks of two: a full chunk and a last chunk of one.
C20_Witness ==
    /\ pfn.name = "Chunk" /\ pfn.x = 2
    /\ Len(parg.s) = 3
    /\ Len(pret) = 2
    /\ Len(pret[1]) = 2 /\ Len(pret[2]) = 1

\* The elements of seq from position n on (positions counted from 0).
From(seq, n) ==
    IF n <= 0 THEN seq
    ELSE IF n >= Len(seq) THEN <<>>
    ELSE SubSeq(seq, n + 1, Len(seq))

\* C21: Drop(s, n) yields the elements of s at positions >= n in order: all
\* of s when n <= 0, nothing when n >= length(s).
C21_DropFrom ==
    pfn.name = "Drop" =>
        /\ pret = From(parg.s, pfn.x)
        /\ Len(pret) = Len(parg.s) - (IF pfn.x < 0 THEN 0
                                      ELSE IF pfn.x > Len(parg.s) THEN Len(parg.s)
                                      ELSE pfn.x)
        /\ \A m \in 1..Len(pret) :
             pret[m] = parg.s[m + (IF pfn.x < 0 THEN 0 ELSE pfn.x)]

\* One of three different elements dropped: the other two are yielded.
C21_Witness ==
    /\ pfn.name = "Drop" /\ pfn.x = 1
    /\ Len(parg.s) = 3 /\ parg.s[1] # parg.s[2]
    /\ pret = <<parg.s[2], parg.s[3]>>

\* The elements of seq that fn accepts, in order.
Accepted(seq, fn) == SelectSeq(seq, LAMBDA v : v \in fn)

\* C22: nothing is pulled from the source before the sequence is iterated;
\* Map has applied fn to exactly the elements pulled, one per value passed to
\* the consumer, and when the consumer stops after k values exactly the
\* first k elements were pulled; when the consumer of Filter stops, the
\* element being yielded is the last one pulled and the last one fn was
\* evaluated on; after the stop the iteration is over.
C22_MapFilterLazy ==
    /\ it.pc = "built" => (it.pulled = 0 /\ it.fnOn = <<>>)
    /\ it.op = "Map" =>
         /\ it.fnOn = SubSeq(it.src, 1, Len(it.fnOn))
         /\ it.pulled - Len(it.fnOn) \in {0, 1}
         /\ Len(it.fnOn) - Len(it.out) \in {0, 1}
         /\ it.stop => (it.pc = "end" /\ Len(it.fnOn) = Len(it.out)
                        /\ it.pulled = Len(it.out))
    /\ it.op = "Filter" =>
         /\ it.fnOn = SubSeq(it.src, 1, Len(it.fnOn))
         /\ it.pulled - Len(it.fnOn) \in {0, 1}
         /\ it.stop => /\ it.pc = "end"
                       /\ it.pulled = Len(it.fnOn)
                       /\ it.out = Accepted(it.fnOn, it.arg)
                       /\ it.out[Len(it.out)] = it.src[it.pulled]

\* The consumer of Map over three elements has stopped on the second value:
\* the third element was never pulled.
C22_Witness ==
    /\ it.op = "Map" /\ Len(it.src) = 3
    /\ it.stop /\ Len(it.out) = 2
    /\ it.pulled = 2 /\ it.fnOn = SubSeq(it.src, 1, 2)

\* The positions of the elements (of the pairs with a value) that differ
\* from the zero value.
NonZeroAt ==
    {n \in 1..Len(parg.s) :
        IF parg.kind = "KV" THEN parg.s[n].V # 0 ELSE parg.s[n] # 0}

\* C23: Coalesce returns the first element that is not the zero value and
\* true, and the zero value and false when there is none; CoalesceKV returns
\* the first pair whose value is not zero, and the zero pair and false when
\* there is none.
C23_CoalesceFirstNonZero ==
    pfn.name \in {"Coalesce", "CoalesceKV"} =>
        IF NonZeroAt = {}
        THEN ~pret.ok /\ pret.v = (IF parg.kind = "KV" THEN [K |-> "", V |-> 0] ELSE 0)
        ELSE pret.ok /\ \E n \in NonZeroAt :
                 /\ pret.v = parg.s[n]
                 /\ \A m \in NonZeroAt : n <= m

\* CoalesceKV passed two pairs with value 0 and returned the third, whose
\* value is negative.
C23_Witness ==
    /\ pfn.name = "CoalesceKV"
    /\ Len(parg.s) = 3
    /\ NonZeroAt = {3}
    /\ pret.ok /\ pret.v = parg.s[3] /\ pret.v.V < 0

\* x is beyond y in the direction the applied function looks for: strictly
\* less for Min, strictly greater for Max.
Beyond(x, y) ==
    IF pfn.name \in {"MinFunc", "MinFuncKV"}
    THEN CallerCmp(pfn.x, x, y) < 0
    ELSE CallerCmp(pfn.x, x, y) > 0

\* The position of the extreme of the first m elements: the first element
\* that no element among them is beyond.
ExtremeAt(m) ==
    CHOOSE j \in 1..m :
        /\ \A n \in 1..m : ~Beyond(parg.s[n], parg.s[j])
        /\ \A n \in 1..(j - 1) : \E q \in 1..m : Beyond(parg.s[q], parg.s[n])

\* C24: MinFunc, MaxFunc, MinFuncKV and MaxFuncKV return the zero value and
\* false on the empty sequence; otherwise true and the first element that no
\* element is strictly less (Min) or greater (Max) than, so that of tied
\* elements the earlier is kept; the comparator is called once per element
\* after the first, with that element and the extreme of those before it.
C24_MinMaxFirstExtreme ==
    pfn.name \in {"MinFunc", "MaxFunc", "MinFuncKV", "MaxFuncKV"} =>
        IF Len(parg.s) = 0
        THEN /\ ~pret.ok
             /\ pret.v = (IF parg.kind = "KV" THEN [K |-> "", V |-> 0] ELSE 0)
             /\ pret.calls = <<>>
        ELSE /\ pret.ok
             /\ pret.v = parg.s[ExtremeAt(Len(parg.s))]
             /\ Len(pret.calls) = Len(parg.s) - 1
             /\ \A m \in 1..Len(pret.calls) :
                  pret.calls[m] = <<parg.s[m + 1], parg.s[ExtremeAt(m)]>>

\* MinFuncKV by value on three pairs: the first and the third pair tie on
\* the smallest value with different keys, and the first is returned.
C24_Witness ==
    /\ pfn.name = "MinFuncKV" /\ pfn.x = "diffV"
    /\ Len(parg.s) = 3
    /\ parg.s[1].V = parg.s[3].V /\ parg.s[1].K # parg.s[3].K
    /\ parg.s[2].V > parg.s[1].V
    /\ pret.ok /\ pret.v = parg.s[1]

\* C25: a tick interval d <= 0 passed to EveryN or EveryUntil is rejected at
\* the call: the call never returns a sequence object.
C25_IntervalRejectedAtCall ==
    (it.op \in Timers /\ it.arg.d <= 0) => it.pc = "call"

\* C26: once the consumer of a ToChan channel has stopped receiving with
\* elements of seq left, the channel is never closed and the driver never
\* returns: it reaches its send and stays blocked there for ever.
C26_ToChanDriverBlocksForever ==
    /\ []((tcOp = "ToChan" /\ cpc = "stopped" /\ ~Exhausted) =>
            (~chClosed /\ dpc # "done"))
    /\ (tcOp = "ToChan" /\ cpc = "stopped" /\ ~Exhausted) ~> [](dpc = "parked")

\* The consumer stopped after its first value; the driver is blocked sending
\* the second one.
C26_Witness ==
    /\ tcOp = "ToChan"
    /\ cpc = "stopped"
    /\ Len(recvd) = 1 /\ Len(tcSeq) = 2
    /\ dpc = "parked"
    /\ ~chClosed

\* C27: in every call, exit is closed exactly when the comparing routine
\* returns (open before the return, closed by it, whatever the return path)
\* and bvals exactly when the goroutine driving b returns; a value is handed
\* over on bvals only while bvals is open, and no step closes a channel that
\* is already closed.
C27_ChannelsClosedOnce ==
    /\ [](\A c \in Calls : /\ exitClosed[c] <=> pc[c] = "done"
                           /\ bvalsClosed[c] <=> gpc[c] = "done")
    /\ [][\A c \in Calls :
            /\ (pc'[c] = "done" /\ pc[c] # "done") =>
                   (~exitClosed[c] /\ exitClosed'[c])
            /\ (gpc'[c] = "done" /\ gpc[c] # "done") =>
                   (~bvalsClosed[c] /\ bvalsClosed'[c])
            /\ (exitClosed'[c] # exitClosed[c]) => pc[c] \in {"recv", "compare", "final"}
            /\ (bvalsClosed'[c] # bvalsClosed[c]) => gpc[c] \in {"range", "select"}
            /\ (gpc[c] = "select" /\ gpc'[c] = "range") => ~bvalsClosed[c]
            /\ (Len(bvalsBuf'[c]) > Len(bvalsBuf[c])) => ~bvalsClosed[c]]_vars

\* A call has returned on a mismatch while the goroutine held a value of b
\* nobody received; the goroutine took the case <-exit and closed bvals.
C27_Witness ==
    /\ pc["c1"] = "done" /\ result["c1"] # 0
    /\ gpc["c1"] = "done"
    /\ bi["c1"] > nrecv["c1"]
    /\ exitClosed["c1"] /\ bvalsClosed["c1"]
    /\ pc["c2"] = "done" /\ gpc["c2"] = "done"
    /\ exitClosed["c2"] /\ bvalsClosed["c2"]

\* C28: every iteration of the sequence returned by one call DropKV(s, n)
\* yields the pairs of s at positions >= n, as Drop does: all of them when
\* the consumer does not stop, the first of them when it does; the second
\* iteration yields what the first did.
C28_DropKVEveryIteration ==
    it.op = "DropKV" =>
        /\ Len(it.out) <= Len(From(it.src, it.arg))
        /\ it.out = SubSeq(From(it.src, it.arg), 1, Len(it.out))
        /\ (it.pc = "end" /\ ~it.stop) => it.out = From(it.src, it.arg)
        /\ (it.pc = "end" /\ ~it.stop) => it.out = Drop(it.src, it.arg, 0)

\* C29: an iteration of the sequence returned by one call EveryN(d, n),
\* n >= 0, never yields more than n ticks, and one the consumer does not stop
\* ends after exactly n ticks, the second iteration like the first.
C29_EveryNTicks ==
    it.op = "EveryN" =>
        /\ Len(it.out) <= it.arg.times
        /\ (it.pc = "end" /\ ~it.stop) => Len(it.out) = it.arg.times

\* C30: in both definitions of Append, yield is never called again once it
\* has answered false, so that a stop at an element of seq leaves the items
\* unyielded; what is yielded is a prefix of the elements of seq followed by
\* the items, the whole of it when the consumer never stops.
C30_AppendStopsAtStop ==
    it.op = "Append" =>
        /\ it.late = 0
        /\ it.pc # "panic"
        /\ Len(it.out) <= Len(it.src \o it.arg.items)
        /\ it.out = SubSeq(it.src \o it.arg.items, 1, Len(it.out))
        /\ (it.pc = "end" /\ ~it.stop) => it.out = it.src \o it.arg.items
====
